---------------------------- MODULE Spec2Model ----------------------------
(***************************************************************************)
(* A model of include/xarray/broadcast.hpp (namespace qs):                 *)
(*   - broadcast_shape, folding an operand's shape into an accumulator;    *)
(*   - broadcasting_iterator, a strided cursor over one operand;           *)
(*   - multi_iterator, the odometer that drives several cursors.           *)
(*                                                                         *)
(* array_shape<S> and array_strides<S> come from xindex.hpp and are used   *)
(* here as std::vector<S> (size(), rbegin(), the (n) and (n, v)            *)
(* constructors): a shape or stride vector is a TLA+ sequence, index 1     *)
(* being the outermost dimension.  A dimension d of the code (0-based) is  *)
(* the sequence index d + 1.                                               *)
(*                                                                         *)
(* The position of an underlying iterator is modelled as its offset from   *)
(* the iterator handed to the constructor, so it is 0 at construction.     *)
(*                                                                         *)
(* Three specifications, one per component:                                *)
(*   SpecBroadcast  a client folds shapes into an accumulator;             *)
(*   SpecCursor     an owner calls increment and reset on one cursor;      *)
(*   Spec           a client steps a multi_iterator.                       *)
(*                                                                         *)
(* Undefined behaviour of the code is a choice in the model:               *)
(*   - broadcast_shape never resizes output, so an input of higher rank    *)
(*     makes output_iter run past output.rend(); each access there faults  *)
(*     or yields an arbitrary value, and a write there leaves the          *)
(*     accumulator's own elements alone;                                   *)
(*   - multi_iterator::operator++ has no return statement; after its loop  *)
(*     the call either returns (the caller drops the reference) or traps.  *)
(*                                                                         *)
(* size_type values stay far below the width of the type in every run      *)
(* (extents, strides and the number of calls are bounded), so unsigned     *)
(* wrap-around does not occur and plain integers are used.                 *)
(***************************************************************************)
EXTENDS Integers, Sequences, FiniteSets, TLC

\* Bounds of the model.
MaxRank == 2
MaxExtent == 3
MaxStride == 3
MaxFold == 2
MaxSteps == 10
MaxCalls == 4

VARIABLES
    \* ---- broadcast_shape ----
    output,      \* the accumulator shape (array_shape<S>& output)
    input,       \* the input shape of the latest call
    entry,       \* the accumulator as it was on entry to the latest call
    ret,         \* how the latest call ended: none | true | false | throw | fault
    first,       \* the accumulator before the first call
    ncalls,      \* the number of calls made on the accumulator
    selfFirst,   \* the first call folded the accumulator's own initial shape
    \* ---- broadcasting_iterator ----
    bit,         \* one cursor: [m_iter, m_strides, m_backstrides]
    bshape,      \* the shape handed to its constructor
    bcount,      \* how often increment(d) and reset(d) were called on it, per d
    blast,       \* the latest call made on it: none | increment | reset
    bstatus,     \* ok | wild | fault, after a read of m_strides outside its
                 \* storage: wild when the read yielded a value, so that the
                 \* position is m_iter plus an amount the inputs do not
                 \* determine; fault when the read stopped the program
    \* ---- multi_iterator ----
    m_iterator,  \* the owned cursors
    m_shape,     \* the logical shape
    m_index,     \* the current index
    carry,       \* the latest operator++ left its loop with j = 0
    pc,          \* run | trap (operator++ flowed off its end without a return)
    nsteps       \* the number of operator++ calls made

vars == <<output, input, entry, ret, first, ncalls, selfFirst,
          bit, bshape, bcount, blast, bstatus,
          m_iterator, m_shape, m_index, carry, pc, nsteps>>

bvars == <<output, input, entry, ret, first, ncalls, selfFirst>>
cvars == <<bit, bshape, bcount, blast, bstatus>>
mvars == <<m_iterator, m_shape, m_index, carry, pc, nsteps>>

-----------------------------------------------------------------------------
(* Values *)

Extents == 0..MaxExtent

\* All sequences over S of length at most n.
SeqsUpTo(S, n) == UNION {[1..k -> S] : k \in 0..n}

Shapes == SeqsUpTo(Extents, MaxRank)

Max(a, b) == IF a >= b THEN a ELSE b
Min(a, b) == IF a <= b THEN a ELSE b

-----------------------------------------------------------------------------
(* broadcast_shape *)

\* What a read through output_iter yields once it has run past output.rend():
\* the access is outside the vector's storage, so it faults or yields whatever
\* lies there.
Fault == 0 - 1
OobReads == Extents \cup {Fault}

\* The k-th element from the back of s (k = 1 is the last one).
FromBack(s, k) == s[Len(s) - k + 1]

\* The loop of broadcast_shape from its k-th iteration on (k = 1 is the
\* trailing dimension).  in is the input, out the accumulator as written so
\* far, trivial the running flag, oob[i] what the i-th read outside the
\* accumulator yields.
RECURSIVE BroadcastLoop(_, _, _, _, _)
BroadcastLoop(in, out, trivial, k, oob) ==
    IF k > Len(in)
    THEN [status |-> "ok", output |-> out, trivial |-> trivial]
    ELSE LET i == FromBack(in, k)
             inside == k <= Len(out)
             o == IF inside THEN FromBack(out, k) ELSE oob[k - Len(out)]
         IN  IF ~inside /\ o = Fault
             THEN [status |-> "fault", output |-> out, trivial |-> trivial]
             ELSE IF o = 1
             THEN \* *output_iter = *input_iter; the flag then compares the
                  \* element just written with the input, which is equal.
                  BroadcastLoop(in,
                      IF inside THEN [out EXCEPT ![Len(out) - k + 1] = i] ELSE out,
                      trivial /\ (i = i), k + 1, oob)
             ELSE IF (i # 1) /\ (o # i)
             THEN [status |-> "throw", output |-> out, trivial |-> trivial]
             ELSE BroadcastLoop(in, out, trivial /\ (o = i), k + 1, oob)

\* A variant that walks the accumulator's rank, taking a missing leading
\* input dimension as extent 0.
broadcast_shapePadded(in, out, oob) ==
    LET n == Max(Len(in), Len(out))
        padded == [k \in 1..n |-> IF k <= n - Len(in) THEN 0 ELSE in[k - (n - Len(in))]]
    IN  BroadcastLoop(padded, out, Len(in) = Len(out), 1, oob)

\* A variant whose flag starts true whatever the two ranks are.
broadcast_shapeNoRankCheck(in, out, oob) ==
    BroadcastLoop(in, out, TRUE, 1, oob)

\* broadcast_shape(input, output): the outcome, the accumulator it leaves and
\* the flag it returns.
broadcast_shape(in, out, oob) ==
    BroadcastLoop(in, out, Len(in) = Len(out), 1, oob)

\* The value of ret for an outcome.
RetOf(r) ==
    IF r.status = "ok" THEN (IF r.trivial THEN "true" ELSE "false") ELSE r.status

\* The caller's accumulator before the first call; no cursor exists.
InitBroadcast ==
    /\ output \in Shapes
    /\ first = output
    /\ entry = output
    /\ input = <<>>
    /\ ret = "none"
    /\ ncalls = 0
    /\ selfFirst = FALSE
    /\ bit = [m_iter |-> 0, m_strides |-> <<>>, m_backstrides |-> <<>>]
    /\ bshape = <<>>
    /\ bcount = [increment |-> <<>>, reset |-> <<>>]
    /\ blast = "none"
    /\ bstatus = "ok"
    /\ m_iterator = <<>>
    /\ m_shape = <<>>
    /\ m_index = <<>>
    /\ carry = FALSE
    /\ pc = "run"
    /\ nsteps = 0

\* One call broadcast_shape(in, output) by the client.  After an exception or
\* a fault the fold is abandoned.
Fold ==
    /\ ret \in {"none", "true", "false"}
    /\ ncalls < MaxFold
    /\ \E in \in Shapes :
       \E oob \in [1..Max(0, Len(in) - Len(output)) -> OobReads] :
          LET r == broadcast_shape(in, output, oob)
          IN  /\ output' = r.output
              /\ ret' = RetOf(r)
              /\ entry' = output
              /\ input' = in
              /\ selfFirst' = IF ncalls = 0 THEN in = first ELSE selfFirst
    /\ ncalls' = ncalls + 1
    /\ UNCHANGED first

NextBroadcast == Fold /\ UNCHANGED <<cvars, mvars>>

SpecBroadcast == InitBroadcast /\ [][NextBroadcast]_vars

-----------------------------------------------------------------------------
(* Claims about broadcast_shape, under SpecBroadcast *)

\* The k-th trailing dimension of s, a missing leading dimension counting as 1.
TrailDim(s, k) == IF k <= Len(s) THEN FromBack(s, k) ELSE 1

\* a and b are broadcast-compatible: every right-aligned pair is equal or has
\* a 1.
Compatible(a, b) ==
    \A k \in 1..Min(Len(a), Len(b)) :
        \/ FromBack(a, k) = 1
        \/ FromBack(b, k) = 1
        \/ FromBack(a, k) = FromBack(b, k)

\* Some right-aligned pair (in, out) has out # 1, in # 1 and in # out.
Mismatch(in, out) ==
    \E k \in 1..Min(Len(in), Len(out)) :
        /\ FromBack(out, k) # 1
        /\ FromBack(in, k) # 1
        /\ FromBack(in, k) # FromBack(out, k)

Positive(s) == \A k \in 1..Len(s) : s[k] >= 1

\* The fold of C1 has been made: the accumulator started as A = first, A was
\* folded into it and then B = input.
FoldedAThenB ==
    /\ ncalls = 2
    /\ selfFirst

\* C1: for broadcast-compatible shapes A and B (extents >= 1, any ranks within
\* the bound, rank(B) > rank(A) included), after broadcast_shape(A, acc) and
\* broadcast_shape(B, acc) on acc = A the accumulator has rank
\* max(rank(A), rank(B)) and its k-th trailing dimension is the max of A's and
\* B's k-th trailing dimensions, a missing leading dimension counting as 1.
C1_FoldYieldsMaxShape ==
    (FoldedAThenB /\ Positive(first) /\ Positive(input)
        /\ Compatible(first, input))
    => /\ Len(output) = Max(Len(first), Len(input))
       /\ \A k \in 1..Len(output) :
              FromBack(output, k) = Max(TrailDim(first, k), TrailDim(input, k))

\* C2: broadcast_shape(input, output) fails with the incompatible-shape error
\* if and only if some right-aligned pair of the shapes on entry has out # 1,
\* in # 1 and in # out; in every other case it returns normally.
C2_ThrowsIffMismatch ==
    (ncalls >= 1)
    => /\ (ret = "throw") <=> Mismatch(input, entry)
       /\ ~Mismatch(input, entry) => ret \in {"true", "false"}

\* C3: when broadcast_shape fails with the incompatible-shape error, the
\* accumulator holds exactly the value it had on entry (stated for the calls
\* whose every access stays inside the accumulator, an inner dimension of
\* extent 1 followed by a mismatching outer one included).
C3_ThrowLeavesOutputUntouched ==
    (ret = "throw" /\ Len(input) <= Len(entry)) => (output = entry)

\* C4: when broadcast_shape returns normally, the flag is true if and only if
\* input and accumulator had equal rank on entry and every aligned pair of
\* dimensions was already equal on entry.
C4_TrivialIffEqualOnEntry ==
    (ret \in {"true", "false"})
    => ((ret = "true") <=> (input = entry))

\* The part of C2 that holds: when the input is no longer than the
\* accumulator, the call throws exactly on a mismatching pair and never faults.
InRankThrowsIffMismatch ==
    (ncalls >= 1 /\ Len(input) <= Len(entry))
    => /\ (ret = "throw") <=> Mismatch(input, entry)
       /\ ret # "fault"

\* C13: for every accumulator shape, broadcast_shape with a 0-dimensional
\* (scalar) input never fails and leaves the accumulator unchanged.
C13_ScalarInputIsNoOp ==
    (ncalls >= 1 /\ input = <<>>)
    => /\ ret \in {"true", "false"}
       /\ output = entry

\* A scalar was folded into an accumulator of rank >= 1, which came back as it
\* was.
C13_Witness ==
    /\ ncalls >= 1
    /\ input = <<>>
    /\ Len(entry) >= 1
    /\ ret = "false"
    /\ output = entry

\* C14: whether the fold succeeds does not depend on the order: folding B into
\* accumulator A fails if and only if folding A into accumulator B fails, and
\* for A and B of equal rank the two resulting accumulators are equal when both
\* succeed.  The state holds the call with input B into entry A; the call in
\* the other order is evaluated for each value its reads outside B can yield.
C14_FoldOrderIndependent ==
    (ncalls = 1)
    => \A oob \in [1..Max(0, Len(entry) - Len(input)) -> OobReads] :
          LET rev == broadcast_shape(entry, input, oob)
          IN  /\ (ret \in {"throw", "fault"}) <=> (rev.status # "ok")
              /\ (Len(entry) = Len(input) /\ ret \in {"true", "false"} /\ rev.status = "ok")
                 => (output = rev.output)

\* For two shapes of equal rank the two orders do agree, on failure and on the
\* resulting accumulator.
EqualRankOrderIndependent ==
    (ncalls = 1 /\ Len(entry) = Len(input))
    => LET rev == broadcast_shape(entry, input, <<>>)
       IN  /\ (ret = "throw") <=> (rev.status = "throw")
           /\ ret # "fault"
           /\ (ret \in {"true", "false"}) => (output = rev.output)

\* C19: whenever broadcast_shape returns true, the accumulator on return has
\* the rank of the input and is element-wise equal to it.
C19_TrueMeansOutputEqualsInput ==
    (ret = "true")
    => /\ Len(output) = Len(input)
       /\ \A k \in 1..Len(input) : output[k] = input[k]

\* A call returned true after widening the accumulator to the input.
C19_Witness ==
    /\ ret = "true"
    /\ Len(input) >= 1
    /\ entry # input
    /\ output = input

-----------------------------------------------------------------------------
(* broadcasting_iterator *)

\* A broadcast dimension, a contiguous one, and one with a larger stride.
StrideVals == {0, 1, MaxStride}

\* The state of strides after m_strides(std::move(strides)): the vector's move
\* constructor takes its storage and leaves it empty.
MovedFrom(strides) == <<>>

\* The lambda handed to std::transform: stride * shape - 1, or 0 for a
\* stride of 0.
BackstrideOf(stride, shape) ==
    IF stride # 0 THEN stride * shape - 1 ELSE 0

\* std::transform(a.begin(), a.end(), b.begin(), dst.begin(), lambda): writes
\* one element of dst per element of a and leaves the rest of dst alone.
Transform(a, b, dst) ==
    [i \in 1..Len(dst) |-> IF i <= Len(a) THEN BackstrideOf(a[i], b[i]) ELSE dst[i]]

\* The constructor.  m_backstrides(shape.size()) is shape.size() zeros; the
\* transform then runs over strides, which the initialisation of m_strides has
\* already moved from.
broadcasting_iterator(iter, strides, shape) ==
    [m_iter        |-> iter,
     m_strides     |-> strides,
     m_backstrides |-> Transform(MovedFrom(strides), shape,
                                 [i \in 1..Len(shape) |-> 0])]

\* A variant that moves by at least one element, taking a stride of 0 as 1.
bi_incrementUnitFloor(c, dim) ==
    [c EXCEPT !.m_iter = @ + Max(1, c.m_strides[dim])]

\* broadcasting_iterator::increment(dim) and reset(dim); dim is 1-based here.
bi_increment(c, dim) == [c EXCEPT !.m_iter = @ + c.m_strides[dim]]
bi_reset(c, dim) == [c EXCEPT !.m_iter = @ - c.m_backstrides[dim]]

\* broadcasting_iterator::operator*: the element of the buffer the cursor is
\* at, which its offset identifies.
bi_dereference(c) == [element |-> c.m_iter]

\* What a read of m_strides[dim] does when dim is outside m_strides: the
\* access is outside the vector's storage, so it stops the program (fault) or
\* yields whatever lies there, which can be any value of the stride type
\* (wild).
OobStrideRead == {"wild", "fault"}

\* A cursor fresh from its constructor, which takes strides and a shape of any
\* lengths; no fold and no Multi-Cursor exist.
InitCursor ==
    /\ output = <<>>
    /\ first = <<>>
    /\ entry = <<>>
    /\ input = <<>>
    /\ ret = "none"
    /\ ncalls = 0
    /\ selfFirst = FALSE
    /\ m_iterator = <<>>
    /\ m_shape = <<>>
    /\ m_index = <<>>
    /\ carry = FALSE
    /\ pc = "run"
    /\ nsteps = 0
    /\ bshape \in Shapes
    /\ \E strides \in SeqsUpTo(StrideVals, MaxRank) :
          bit = broadcasting_iterator(0, strides, bshape)
    /\ bcount = [increment |-> [d \in 1..Len(bshape) |-> 0],
                 reset     |-> [d \in 1..Len(bshape) |-> 0]]
    /\ blast = "none"
    /\ bstatus = "ok"

\* The sum of the elements of s.
RECURSIVE Sum(_)
Sum(s) == IF s = <<>> THEN 0 ELSE s[1] + Sum(Tail(s))

\* The number of calls made on the cursor so far.
NCalls == Sum(bcount.increment) + Sum(bcount.reset)

\* The owner calls increment(d) on the cursor, d a dimension of the logical
\* shape.  When m_strides is shorter than the shape, m_strides[d] may lie
\* outside it: the amount then added to the position is not a value the model
\* can name, so m_iter keeps the part that is determined and bstatus records
\* that the position is off it by an undetermined amount.
Advance ==
    /\ bstatus # "fault"
    /\ NCalls < MaxCalls
    /\ \E d \in 1..Len(bshape) :
          /\ bcount' = [bcount EXCEPT !.increment[d] = @ + 1]
          /\ IF d <= Len(bit.m_strides)
             THEN /\ bit' = bi_increment(bit, d)
                  /\ bstatus' = bstatus
             ELSE /\ bit' = bit
                  /\ bstatus' \in OobStrideRead
    /\ blast' = "increment"
    /\ UNCHANGED bshape

\* The owner calls reset(d) on the cursor; m_backstrides has one element per
\* dimension of the shape.
Rewind ==
    /\ bstatus # "fault"
    /\ NCalls < MaxCalls
    /\ \E d \in 1..Len(bshape) :
          /\ bit' = bi_reset(bit, d)
          /\ bcount' = [bcount EXCEPT !.reset[d] = @ + 1]
    /\ blast' = "reset"
    /\ UNCHANGED <<bshape, bstatus>>

NextCursor ==
    \/ Advance /\ UNCHANGED <<bvars, mvars>>
    \/ Rewind /\ UNCHANGED <<bvars, mvars>>

SpecCursor == InitCursor /\ [][NextCursor]_vars

-----------------------------------------------------------------------------
(* multi_iterator *)

\* The instantiations modelled: one owned cursor, and two.
Arities == {1, 2}

\* A cursor as an element of the tuple m_iterator: the cursor, with the
\* record of the calls the Multi-Cursor has made on it, oldest first.
Owned(c) ==
    [m_iter        |-> c.m_iter,
     m_strides     |-> c.m_strides,
     m_backstrides |-> c.m_backstrides,
     calls         |-> <<>>]

\* The for_each lambda has called op(i) on this cursor.
Called(c, op, i) == [c EXCEPT !.calls = Append(@, <<op, i>>)]

\* A variant of increment(i) that leaves out the cursors whose stride in
\* dimension i is 0.
mi_incrementSkipBroadcast(iters, i) ==
    [n \in 1..Len(iters) |->
        IF iters[n].m_strides[i] = 0
        THEN iters[n]
        ELSE Called(bi_increment(iters[n], i), "increment", i)]

\* multi_iterator::increment(i) and reset(i): for_each over the tuple of
\* cursors.
mi_increment(iters, i) ==
    [n \in 1..Len(iters) |-> Called(bi_increment(iters[n], i), "increment", i)]
mi_reset(iters, i) ==
    [n \in 1..Len(iters) |-> Called(bi_reset(iters[n], i), "reset", i)]

\* The loop of operator++ from j on; the code's i = j - 1 is the sequence
\* index j.  The result carries the value of j on leaving the loop: 0 when the
\* scan ran past dimension 0, the dimension that was incremented otherwise.
\* multi_iterator::data<N>(): the body hands back the N-th element of the
\* tuple m_iterator, which is the cursor, not what the cursor points at.
data(iters, n) == iters[n]

RECURSIVE StepLoop(_, _, _, _)
StepLoop(j, index, iters, shape) ==
    IF j = 0
    THEN [m_index |-> index, m_iterator |-> iters, j |-> 0]
    ELSE IF index[j] + 1 # shape[j]
    THEN [m_index    |-> [index EXCEPT ![j] = @ + 1],
          m_iterator |-> mi_increment(iters, j),
          j          |-> j]
    ELSE StepLoop(j - 1, [index EXCEPT ![j] = 0], mi_reset(iters, j), shape)

\* The constructor: the cursors as given, the shape, an index of zeros.  No
\* fold and no separate cursor exist.
InitMulti ==
    /\ output = <<>>
    /\ first = <<>>
    /\ entry = <<>>
    /\ input = <<>>
    /\ ret = "none"
    /\ ncalls = 0
    /\ selfFirst = FALSE
    /\ bit = [m_iter |-> 0, m_strides |-> <<>>, m_backstrides |-> <<>>]
    /\ bshape = <<>>
    /\ bcount = [increment |-> <<>>, reset |-> <<>>]
    /\ blast = "none"
    /\ bstatus = "ok"
    /\ m_shape \in Shapes
    /\ \E n \in Arities :
          m_iterator \in [1..n -> {Owned(broadcasting_iterator(0, strides, m_shape)) :
                                      strides \in [1..Len(m_shape) -> StrideVals]}]
    /\ m_index = [d \in 1..Len(m_shape) |-> 0]
    /\ carry = FALSE
    /\ pc = "run"
    /\ nsteps = 0

\* operator++.  It is not called again once the scan has run past dimension
\* 0.  The function has no return statement: flowing off its end either hands
\* the caller a reference it never uses (run) or stops the program (trap).
Step ==
    /\ pc = "run"
    /\ ~carry
    /\ nsteps < MaxSteps
    /\ LET r == StepLoop(Len(m_index), m_index, m_iterator, m_shape)
       IN  /\ m_index' = r.m_index
           /\ m_iterator' = r.m_iterator
           /\ carry' = (r.j = 0)
    /\ nsteps' = nsteps + 1
    /\ pc' \in {"run", "trap"}
    /\ UNCHANGED m_shape

NextMulti == Step /\ UNCHANGED <<bvars, cvars>>

Spec == InitMulti /\ [][NextMulti]_vars

-----------------------------------------------------------------------------
(* Claims about multi_iterator, under Spec *)

\* The product of the elements of s (1 for the empty sequence).
RECURSIVE Product(_)
Product(s) == IF s = <<>> THEN 1 ELSE s[1] * Product(Tail(s))

\* The row-major rank of index in shape: the number of indices before it.
RECURSIVE RowMajorRank(_, _)
RowMajorRank(index, shape) ==
    IF index = <<>> THEN 0
    ELSE index[1] * Product(Tail(shape)) + RowMajorRank(Tail(index), Tail(shape))

\* 0 <= index[d] < shape[d] for every dimension d.
InRange(index, shape) ==
    \A d \in 1..Len(shape) : 0 <= index[d] /\ index[d] < shape[d]

\* The positions of the owned cursors.
Positions == [n \in 1..Len(m_iterator) |-> m_iterator[n].m_iter]

\* The scenario of C5: shape [2, 3], a cursor with strides [3, 1] and one with
\* strides [0, 1].
C5_Scenario ==
    /\ m_shape = <<2, 3>>
    /\ Len(m_iterator) = 2
    /\ m_iterator[1].m_strides = <<3, 1>>
    /\ m_iterator[2].m_strides = <<0, 1>>

C5_Indices == << <<0, 0>>, <<0, 1>>, <<0, 2>>, <<1, 0>>, <<1, 1>>, <<1, 2>> >>

\* C5: over shape [2, 3] with cursors of strides [3, 1] and [0, 1], the state
\* at construction and after each of the first five step() calls has the
\* indices (0,0),(0,1),(0,2),(1,0),(1,1),(1,2) in that order, the first
\* cursor at the offsets 0,1,2,3,4,5 and the second at 0,1,2,0,1,2.
C5_TwoByThreeTraversal ==
    (C5_Scenario /\ nsteps <= 5)
    => /\ m_index = C5_Indices[nsteps + 1]
       /\ m_iterator[1].m_iter = nsteps
       /\ m_iterator[2].m_iter = nsteps % 3

\* C6: for every shape of non-negative extents, a run exposes each logical
\* index exactly once in row-major order: the state after n step() calls, when
\* not terminal, exposes the index of row-major rank n, and the terminal state
\* is reached after product(shape) calls.
C6_RowMajorFullRun ==
    /\ ~carry => /\ InRange(m_index, m_shape)
                 /\ RowMajorRank(m_index, m_shape) = nsteps
    /\ carry => nsteps = Product(m_shape)

\* C7: the terminal state, reached when a step() runs past dimension 0, is
\* signaled: what the Multi-Cursor holds then (its index and its cursors'
\* positions) differs from what it held when freshly constructed.
C7_TerminalIsSignaled ==
    carry => <<m_index, Positions>>
                 # <<[d \in 1..Len(m_shape) |-> 0], [n \in 1..Len(m_iterator) |-> 0]>>

\* C8: a Multi-Cursor over a 0-dimensional shape is not terminal at
\* construction, where current() exposes exactly one element for each operand
\* (the element its cursor is at), and is in the terminal state after exactly
\* one step(): the step has returned and has left the Multi-Cursor in a state
\* other than the non-terminal one it was constructed in.
C8_ScalarOneElementThenTerminal ==
    (Len(m_shape) = 0)
    => /\ (nsteps = 0)
          => \A n \in 1..Len(m_iterator) :
                 data(m_iterator, n) = bi_dereference(m_iterator[n])
       /\ (nsteps = 1)
          => /\ pc = "run"
             /\ <<m_index, Positions>> # <<<<>>, [n \in 1..Len(m_iterator) |-> 0]>>

\* The step half of C8 on its own, which fails as well: after one step() over
\* a 0-dimensional shape the call has returned and the state is not the
\* constructed one.
ScalarStepLeavesConstructedState ==
    (Len(m_shape) = 0 /\ nsteps = 1)
    => /\ pc = "run"
       /\ <<m_index, Positions>> # <<<<>>, [n \in 1..Len(m_iterator) |-> 0]>>

\* C9: in every state reachable from construction by step() calls, the
\* Multi-Cursor is terminal or 0 <= index[d] < shape[d] for every d, for every
\* shape of non-negative extents, extents of 0 included.
C9_IndexInRangeOrTerminal ==
    carry \/ InRange(m_index, m_shape)

\* The part of C6 and C9 that holds: over a shape of extents >= 1 the index is
\* in range and is the one of row-major rank nsteps until the run is terminal.
PositiveShapeRowMajor ==
    Positive(m_shape)
    => /\ ~carry => /\ InRange(m_index, m_shape)
                    /\ RowMajorRank(m_index, m_shape) = nsteps
       /\ carry => nsteps = Product(m_shape)

\* The calls one step is to issue from index and shape: reset on each dimension
\* of the longest trailing run of dimensions at their last index, innermost
\* first, then increment on the dimension before that run, if there is one.
\* (Dimension d here is the code's dimension d - 1.)
StepCalls(index, shape) ==
    LET rank == Len(shape)
        run  == Cardinality({d \in 1..rank : \A e \in d..rank : index[e] + 1 = shape[e]})
    IN  [k \in 1..(run + (IF run < rank THEN 1 ELSE 0)) |->
            IF k <= run THEN <<"reset", rank - k + 1>> ELSE <<"increment", rank - run>>]

\* C15: all cursors owned by one Multi-Cursor have received exactly the same
\* sequence of increment(d) and reset(d) calls, and each step issues at most one
\* increment, on the dimension where the carry stops, preceded by reset(d) on
\* exactly the trailing dimensions that overflowed.
C15_SameCallsOnEveryCursor ==
    [][\A n \in 1..Len(m_iterator) :
          /\ m_iterator'[n].calls = m_iterator[n].calls \o StepCalls(m_index, m_shape)
          /\ m_iterator'[n].calls = m_iterator'[1].calls]_vars

\* Two cursors of different strides, one of them broadcast, have been through
\* a step that reset the inner dimension and incremented the outer one.
C15_Witness ==
    /\ Len(m_iterator) = 2
    /\ Len(m_shape) = 2
    /\ m_iterator[1].m_strides[1] # 0
    /\ m_iterator[2].m_strides[1] = 0
    /\ m_iterator[1].calls = m_iterator[2].calls
    /\ \E k \in 1..(Len(m_iterator[1].calls) - 1) :
          /\ m_iterator[1].calls[k] = <<"reset", 2>>
          /\ m_iterator[1].calls[k + 1] = <<"increment", 1>>

\* The offset of an index under a stride vector.
Dot(index, strides) == Sum([d \in 1..Len(index) |-> index[d] * strides[d]])

\* C17: in every non-terminal state reachable by stepping, every owned cursor
\* is at start + sum over d of index[d] * strides[d], for every shape with
\* extents >= 1 and every stride vector.
C17_PositionsAlignedWithIndex ==
    (Positive(m_shape) /\ ~carry)
    => \A n \in 1..Len(m_iterator) :
          m_iterator[n].m_iter = Dot(m_index, m_iterator[n].m_strides)

\* C18: for every shape with extents >= 1 and every stride vector, after
\* exactly product(shape) steps the index is all zeros again and every cursor
\* is at the position it was constructed at.
C18_FullCycleRoundTrip ==
    (Positive(m_shape) /\ nsteps = Product(m_shape))
    => /\ m_index = [d \in 1..Len(m_shape) |-> 0]
       /\ \A n \in 1..Len(m_iterator) : m_iterator[n].m_iter = 0

\* The index half of the round trip does hold.
FullCycleIndexReturns ==
    (Positive(m_shape) /\ nsteps = Product(m_shape))
    => m_index = [d \in 1..Len(m_shape) |-> 0]

-----------------------------------------------------------------------------
(* Claims about broadcasting_iterator, under SpecCursor *)

\* C10: over a 1-D shape of extent n >= 1 with a stride k # 0, exactly n calls
\* of advance(0) followed by one reset(0) return the position to the value it
\* had at construction.
C10_AdvanceNThenResetRoundTrip ==
    (/\ Len(bshape) = 1
     /\ Len(bit.m_strides) = 1
     /\ bshape[1] >= 1
     /\ bit.m_strides[1] # 0
     /\ bcount.increment[1] = bshape[1]
     /\ bcount.reset[1] = 1
     /\ blast = "reset")
    => bit.m_iter = 0

\* The backstride of the data model: stride * (extent - 1), or 0 for a
\* stride of 0.
ExpectedBackstride(stride, extent) ==
    IF stride # 0 THEN stride * (extent - 1) ELSE 0

\* C11: for a cursor constructed from strides and a shape of equal length, the
\* stored backstride of each dimension d is strides[d] * (shape[d] - 1) when
\* strides[d] # 0 and 0 when strides[d] = 0, for every stride and every extent
\* (stated for extents >= 1).
C11_BackstrideIsStrideTimesExtentMinusOne ==
    (Len(bit.m_strides) = Len(bshape) /\ Positive(bshape))
    => /\ Len(bit.m_backstrides) = Len(bshape)
       /\ \A d \in 1..Len(bshape) :
              bit.m_backstrides[d] = ExpectedBackstride(bit.m_strides[d], bshape[d])

\* C12: constructing a cursor with strides.length # shape.length fails fast:
\* no usable cursor comes out of the constructor, whether strides is shorter
\* or longer than the shape.
C12_MismatchedLengthsFailFast ==
    (Len(bit.m_strides) # Len(bshape)) => (bstatus = "abort")

\* The call of this step was made on dimension d.
CalledOn(d) ==
    bcount'.increment[d] + bcount'.reset[d] > bcount.increment[d] + bcount.reset[d]

\* C16: on a dimension d whose stride is 0, every increment(d) and reset(d)
\* leaves the position unchanged; and on any dimension increment and reset
\* change only the position, never m_strides or m_backstrides.
C16_ZeroStrideAndFrame ==
    [][/\ bit'.m_strides = bit.m_strides
       /\ bit'.m_backstrides = bit.m_backstrides
       /\ \A d \in 1..Min(Len(bshape), Len(bit.m_strides)) :
              (bit.m_strides[d] = 0 /\ CalledOn(d)) => (bit'.m_iter = bit.m_iter)]_vars

\* A dimension of stride 0 has been advanced and reset, and the cursor is
\* where it was constructed.
C16_Witness ==
    /\ Len(bit.m_strides) = Len(bshape)
    /\ bit.m_iter = 0
    /\ \E d \in 1..Len(bshape) :
          /\ bit.m_strides[d] = 0
          /\ bshape[d] >= 2
          /\ bcount.increment[d] >= 1
          /\ bcount.reset[d] >= 1

=============================================================================
